---- MODULE Spec2Model ----
(***************************************************************************)
(* Model of scripts/generate-data.py: the dataset generator that writes    *)
(* players_historical.csv, matches_historical.csv and matches_batch2.csv.  *)
(*                                                                         *)
(* A CSV line is the sequence of its fields.  An integer field is the      *)
(* sequence of decimal digits str() gives for it; a timestamp field is the *)
(* tuple <<Y, M, D, h, m, s>> of the numeric groups of                     *)
(* '%Y-%m-%d %H:%M:%S' (the groups have fixed width, so text order is the  *)
(* lexicographic order of the tuples); the other fields are strings.       *)
(***************************************************************************)
EXTENDS Integers, Sequences, FiniteSets, TLC

(***************************************************************************)
(* Bounds of the model: the configuration constants range over 0..Max.     *)
(***************************************************************************)
MaxPlayers == 2

MaxMatches == 2

MaxBatch2 == 2

\* DUPLICATE_PERCENTAGE values explored, as <<numerator, denominator>>;
\* <<1, 10>> is the value the script sets.
DuplicateFractions == {<<1, 10>>, <<1, 2>>, <<1, 1>>}

\* Each random call returns an extreme of the range it draws from; a profile fixes, for the
\* four random calls of one row in program order, which extreme each returns.
DrawProfiles ==
    { <<"min", "min", "min", "min">>,
      <<"max", "max", "max", "max">> }

(***************************************************************************)
(* Small helpers.                                                          *)
(***************************************************************************)
Range(s) == {s[k] : k \in DOMAIN s}

(***************************************************************************)
(* datetime: a datetime is [days |-> proleptic Gregorian ordinal,          *)
(* secs |-> second of the day].                                            *)
(***************************************************************************)
IsLeap(y) == (y % 4 = 0 /\ y % 100 # 0) \/ y % 400 = 0

DaysInMonth(y, m) ==
    IF m = 2 THEN (IF IsLeap(y) THEN 29 ELSE 28)
    ELSE IF m \in {4, 6, 9, 11} THEN 30 ELSE 31

DaysBeforeYear(y) ==
    (y - 1) * 365 + ((y - 1) \div 4) - ((y - 1) \div 100) + ((y - 1) \div 400)

RECURSIVE DaysBeforeMonth(_, _)
DaysBeforeMonth(y, m) ==
    IF m = 1 THEN 0 ELSE DaysBeforeMonth(y, m - 1) + DaysInMonth(y, m - 1)

\* datetime(y, m, d): midnight of that date.
datetime(y, m, d) ==
    [days |-> DaysBeforeYear(y) + DaysBeforeMonth(y, m) + d, secs |-> 0]

\* timedelta(days=d, seconds=s), normalised to 0 <= secs < 86400.
timedelta(d, s) == [days |-> d + (s \div 86400), secs |-> s % 86400]

\* (end - start).days
DeltaDays(end, start) ==
    IF end.secs >= start.secs THEN end.days - start.days
    ELSE end.days - start.days - 1

\* datetime + timedelta
DatePlus(dt, td) ==
    [days |-> dt.days + td.days + ((dt.secs + td.secs) \div 86400),
     secs |-> (dt.secs + td.secs) % 86400]

RECURSIVE YearOfOrdinal(_, _)
YearOfOrdinal(n, y) ==
    IF n <= DaysBeforeYear(y + 1) THEN y ELSE YearOfOrdinal(n, y + 1)

RECURSIVE MonthOfDay(_, _, _)
MonthOfDay(y, n, m) ==
    IF n <= DaysInMonth(y, m) THEN <<m, n>>
    ELSE MonthOfDay(y, n - DaysInMonth(y, m), m + 1)

\* dt.strftime('%Y-%m-%d %H:%M:%S'), as the tuple of its numeric groups.
strftime(dt) ==
    LET y  == YearOfOrdinal(dt.days, (dt.days \div 366) + 1)
        md == MonthOfDay(y, dt.days - DaysBeforeYear(y), 1)
    IN  <<y, md[1], md[2],
          dt.secs \div 3600, (dt.secs % 3600) \div 60, dt.secs % 60>>

(***************************************************************************)
(* random                                                                  *)
(***************************************************************************)
\* random.randint(a, b) under draw u, for a <= b: the least or the greatest
\* of the integers a..b it can return.
randint(a, b, u) == IF u = "min" THEN a ELSE b

\* random.randint(a, b) raises ValueError: there is no integer in a..b.
EmptyRange(a, b) == b < a

\* range(n) with the end included (off by one)
range_inclusive(n) == 0..n

\* range(n)
range(n) == 0..(n - 1)

\* random.choice(seq) under draw u, for a non-empty seq.
choice(seq, u) == seq[randint(0, Len(seq) - 1, u) + 1]

\* random.choice(seq): every element it can return (none: IndexError).
choices(seq) == {seq[k + 1] : k \in 0..(Len(seq) - 1)}

\* random_date(start_date, end_date), its two random calls drawing ud and us.
random_date(start_date, end_date, ud, us) ==
    LET time_delta_days == DeltaDays(end_date, start_date)
        random_days     == randint(0, time_delta_days, ud)
        random_seconds  == randint(0, 86400, us)
    IN  DatePlus(start_date, timedelta(random_days, random_seconds))

(***************************************************************************)
(* Files and csv.  A file is [mode, disk, buf]: writes are buffered and    *)
(* reach the disk when the file is closed.                                 *)
(***************************************************************************)
PLAYERS == "players_historical.csv"

MATCHES == "matches_historical.csv"

BATCH2 == "matches_batch2.csv"

FileNames == {PLAYERS, MATCHES, BATCH2}

Absent == [mode |-> "absent", disk |-> <<>>, buf |-> <<>>]

\* open(path, 'w'): creates or truncates.
open_w == [mode |-> "w", disk |-> <<>>, buf |-> <<>>]

\* open(path, 'r')
open_r(file) == [file EXCEPT !.mode = "r"]

\* csv.writer(f).writerow(row)
writerow(file, row) == [file EXCEPT !.buf = Append(@, row)]

\* the buffer is flushed but the handle is never released
close_leak(file) == [file EXCEPT !.disk = @ \o file.buf, !.buf = <<>>]

\* leaving the with block: flush and close.
close(file) == [mode |-> "closed", disk |-> file.disk \o file.buf, buf |-> <<>>]

\* str(n) as csv.writer writes a non-negative integer field: its digits.
RECURSIVE str(_)
str(n) == IF n < 10 THEN <<n>> ELSE Append(str(n \div 10), n % 10)

\* Position of field name h in the header line.
FieldIndex(header, h) == CHOOSE k \in DOMAIN header : header[k] = h

\* a reader that does not consume the header line: it is returned as a row
DictReaderKeepHeader(lines) ==
    [k \in 1..Len(lines) |->
        [h \in Range(lines[1]) |-> lines[k][FieldIndex(lines[1], h)]]]

\* list(csv.DictReader(f)): one dict per data line, keyed by the header line.
DictReader(lines) ==
    IF lines = <<>> THEN <<>>
    ELSE [k \in 1..(Len(lines) - 1) |->
            [h \in Range(lines[1]) |-> lines[k + 1][FieldIndex(lines[1], h)]]]

\* seq[1:n]: the slice starts one element late
TakeFromSecond(seq, n) == SubSeq(seq, 2, IF Len(seq) < n THEN Len(seq) ELSE n)

\* seq[:n]
Take(seq, n) == SubSeq(seq, 1, IF Len(seq) < n THEN Len(seq) ELSE n)

\* the product rounded up instead of truncated
int_mul_ceil(count, fraction) ==
    (count * fraction[1] + fraction[2] - 1) \div fraction[2]

\* int(count * fraction) for fraction = <<numerator, denominator>>
int_mul(count, fraction) == (count * fraction[1]) \div fraction[2]

(***************************************************************************)
(* Program text constants.                                                 *)
(***************************************************************************)
adjectives ==
    <<"swift", "mighty", "clever", "brave", "silent",
      "fierce", "wise", "dark", "bright", "cool">>

nouns ==
    <<"dragon", "phoenix", "tiger", "wolf", "eagle",
      "ninja", "warrior", "mage", "knight", "hunter">>

player_id_start == 11

SCORE_LOW == 100

SCORE_HIGH == 5000

PREFIX_ROWS == 1000

PlayersHeader == <<"username", "email", "created_at">>

MatchesHeader == <<"player_id", "score", "played_at">>

\* the loop index left out of the name
UsernameNoIndex(adj, noun, idx) == adj \o "_" \o noun

\* f"{adj}_{noun}_{i}"
Username(adj, noun, idx) == adj \o "_" \o noun \o "_" \o ToString(idx)

\* the domain suffix misspelt
EmailOtherDomain(username) == username \o "@gamers.example.org"

\* f"{username}@gamers.example.com"
Email(username) == username \o "@gamers.example.com"

\* the end of the id range one too far
player_id_end_plus_one(numPlayers) == player_id_start + numPlayers

player_id_end(numPlayers) == player_id_start + numPlayers - 1

\* random.randint(player_id_start, player_id_end) under draw u
random_player_id(numPlayers, u) ==
    randint(player_id_start, player_id_end(numPlayers), u)

\* scores drawn from 0 upwards
random_score_from_zero(u) == randint(0, SCORE_HIGH, u)

\* random.randint(100, 5000) under draw u
random_score(u) == randint(SCORE_LOW, SCORE_HIGH, u)

\* One freshly sampled match row (lines 73-77 and 113-116) under profile u.
MatchRow(numPlayers, start_date, end_date, u) ==
    LET player_id == random_player_id(numPlayers, u[1])
        score     == random_score(u[2])
        played_at == strftime(random_date(start_date, end_date, u[3], u[4]))
    IN  <<str(player_id), str(score), played_at>>

\* The row written for a cached match (line 121).
DupRow(match) == <<match["player_id"], match["score"], match["played_at"]>>

\* One player row (lines 42-48) for loop index idx under profile u.
PlayerRow(idx, u) ==
    LET adj        == choice(adjectives, u[1])
        noun       == choice(nouns, u[2])
        username   == Username(adj, noun, idx)
        email      == Email(username)
        created_at == strftime(random_date(datetime(2023, 1, 1),
                                           datetime(2024, 1, 1), u[3], u[4]))
    IN  <<username, email, created_at>>

(***************************************************************************)
(* State.                                                                  *)
(***************************************************************************)
VARIABLES
    NUM_PLAYERS, NUM_MATCHES, NUM_BATCH2_MATCHES, DUPLICATE_PERCENTAGE,
    pc,                 \* position in main and the generator it is running
    i,                  \* loop index of the running loop
    fs,                 \* the three output files
    existing_matches,   \* generate_batch2_with_duplicates: cached rows
    num_duplicates, num_new

config == <<NUM_PLAYERS, NUM_MATCHES, NUM_BATCH2_MATCHES, DUPLICATE_PERCENTAGE>>

locals == <<existing_matches, num_duplicates, num_new>>

vars == <<config, pc, i, fs, locals>>

Init ==
    /\ NUM_PLAYERS \in 0..MaxPlayers
    /\ NUM_MATCHES \in 0..MaxMatches
    /\ NUM_BATCH2_MATCHES \in 0..MaxBatch2
    /\ DUPLICATE_PERCENTAGE \in DuplicateFractions
    /\ pc = "players_open"
    /\ i = 0
    /\ fs = [n \in FileNames |-> Absent]
    /\ existing_matches = <<>>
    /\ num_duplicates = 0
    /\ num_new = 0

(***************************************************************************)
(* generate_players                                                        *)
(***************************************************************************)
PlayersOpen ==
    /\ pc = "players_open"
    /\ fs' = [fs EXCEPT ![PLAYERS] = writerow(open_w, PlayersHeader)]
    /\ i' = 0
    /\ pc' = "players_loop"
    /\ UNCHANGED <<config, locals>>

PlayersRow ==
    /\ pc = "players_loop"
    /\ i \in range(NUM_PLAYERS)
    /\ \E u \in DrawProfiles :
          fs' = [fs EXCEPT ![PLAYERS] = writerow(@, PlayerRow(i, u))]
    /\ i' = i + 1
    /\ UNCHANGED <<config, pc, locals>>

PlayersClose ==
    /\ pc = "players_loop"
    /\ i \notin range(NUM_PLAYERS)
    /\ fs' = [fs EXCEPT ![PLAYERS] = close(@)]
    /\ pc' = "matches_open"
    /\ UNCHANGED <<config, i, locals>>

(***************************************************************************)
(* generate_matches                                                        *)
(***************************************************************************)
MatchesOpen ==
    /\ pc = "matches_open"
    /\ fs' = [fs EXCEPT ![MATCHES] = writerow(open_w, MatchesHeader)]
    /\ i' = 0
    /\ pc' = "matches_loop"
    /\ UNCHANGED <<config, locals>>

MatchesRow ==
    /\ pc = "matches_loop"
    /\ i \in range(NUM_MATCHES)
    /\ ~EmptyRange(player_id_start, player_id_end(NUM_PLAYERS))
    /\ \E u \in DrawProfiles :
          fs' = [fs EXCEPT ![MATCHES] =
                    writerow(@, MatchRow(NUM_PLAYERS, datetime(2023, 1, 1),
                                         datetime(2024, 1, 1), u))]
    /\ i' = i + 1
    /\ UNCHANGED <<config, pc, locals>>

\* random.randint on an empty range raises; the with block closes the file.
MatchesRaise ==
    /\ pc = "matches_loop"
    /\ i \in range(NUM_MATCHES)
    /\ EmptyRange(player_id_start, player_id_end(NUM_PLAYERS))
    /\ fs' = [fs EXCEPT ![MATCHES] = close(@)]
    /\ pc' = "failed"
    /\ UNCHANGED <<config, i, locals>>

MatchesClose ==
    /\ pc = "matches_loop"
    /\ i \notin range(NUM_MATCHES)
    /\ fs' = [fs EXCEPT ![MATCHES] = close(@)]
    /\ pc' = "batch2_read"
    /\ UNCHANGED <<config, i, locals>>

(***************************************************************************)
(* generate_batch2_with_duplicates                                         *)
(***************************************************************************)
\* with open(matches_file, 'r'): existing_matches = list(reader)[:1000]
Batch2Read ==
    /\ pc = "batch2_read"
    /\ fs' = [fs EXCEPT ![MATCHES] = open_r(@)]
    /\ existing_matches' = Take(DictReader(fs[MATCHES].disk), PREFIX_ROWS)
    /\ pc' = "batch2_read_close"
    /\ UNCHANGED <<config, i, num_duplicates, num_new>>

Batch2ReadClose ==
    /\ pc = "batch2_read_close"
    /\ fs' = [fs EXCEPT ![MATCHES] = close(@)]
    /\ pc' = "batch2_open"
    /\ UNCHANGED <<config, i, locals>>

Batch2Open ==
    /\ pc = "batch2_open"
    /\ fs' = [fs EXCEPT ![BATCH2] = writerow(open_w, MatchesHeader)]
    /\ num_duplicates' = int_mul(NUM_BATCH2_MATCHES, DUPLICATE_PERCENTAGE)
    /\ num_new' = NUM_BATCH2_MATCHES - num_duplicates'
    /\ i' = 0
    /\ pc' = "batch2_new"
    /\ UNCHANGED <<config, existing_matches>>

Batch2NewRow ==
    /\ pc = "batch2_new"
    /\ i \in range(num_new)
    /\ ~EmptyRange(player_id_start, player_id_end(NUM_PLAYERS))
    /\ \E u \in DrawProfiles :
          fs' = [fs EXCEPT ![BATCH2] =
                    writerow(@, MatchRow(NUM_PLAYERS, datetime(2023, 6, 1),
                                         datetime(2024, 1, 1), u))]
    /\ i' = i + 1
    /\ UNCHANGED <<config, pc, locals>>

Batch2NewRaise ==
    /\ pc = "batch2_new"
    /\ i \in range(num_new)
    /\ EmptyRange(player_id_start, player_id_end(NUM_PLAYERS))
    /\ fs' = [fs EXCEPT ![BATCH2] = close(@)]
    /\ pc' = "failed"
    /\ UNCHANGED <<config, i, locals>>

\* the first loop is over: the second one starts at index 0
Batch2NewDone ==
    /\ pc = "batch2_new"
    /\ i \notin range(num_new)
    /\ i' = 0
    /\ pc' = "batch2_dup"
    /\ UNCHANGED <<config, fs, locals>>

Batch2DupRow ==
    /\ pc = "batch2_dup"
    /\ i \in range(num_duplicates)
    /\ \E match \in choices(existing_matches) :
          fs' = [fs EXCEPT ![BATCH2] = writerow(@, DupRow(match))]
    /\ i' = i + 1
    /\ UNCHANGED <<config, pc, locals>>

\* random.choice on an empty list raises; the with block closes the file.
Batch2DupRaise ==
    /\ pc = "batch2_dup"
    /\ i \in range(num_duplicates)
    /\ choices(existing_matches) = {}
    /\ fs' = [fs EXCEPT ![BATCH2] = close(@)]
    /\ pc' = "failed"
    /\ UNCHANGED <<config, i, locals>>

Batch2Close ==
    /\ pc = "batch2_dup"
    /\ i \notin range(num_duplicates)
    /\ fs' = [fs EXCEPT ![BATCH2] = close(@)]
    /\ pc' = "main_end"
    /\ UNCHANGED <<config, i, locals>>

(***************************************************************************)
(* main                                                                    *)
(***************************************************************************)
\* "All data generated successfully!"
MainSuccess ==
    /\ pc = "main_end"
    /\ pc' = "done"
    /\ UNCHANGED <<config, i, fs, locals>>

Next ==
    \/ PlayersOpen
    \/ PlayersRow
    \/ PlayersClose
    \/ MatchesOpen
    \/ MatchesRow
    \/ MatchesRaise
    \/ MatchesClose
    \/ Batch2Read
    \/ Batch2ReadClose
    \/ Batch2Open
    \/ Batch2NewRow
    \/ Batch2NewRaise
    \/ Batch2NewDone
    \/ Batch2DupRow
    \/ Batch2DupRaise
    \/ Batch2Close
    \/ MainSuccess

Spec == Init /\ [][Next]_vars

(***************************************************************************)
(* Properties.                                                             *)
(***************************************************************************)
\* The lines written to a file so far, and its data lines.
Written(name) == fs[name].disk \o fs[name].buf

DataRows(name) == IF Written(name) = <<>> THEN <<>> ELSE Tail(Written(name))

Jan2023 == <<2023, 1, 1, 0, 0, 0>>

Jun2023 == <<2023, 6, 1, 0, 0, 0>>

Jan2024 == <<2024, 1, 1, 0, 0, 0>>

\* Order of two formatted timestamps (text order).
RECURSIVE LexLess(_, _)
LexLess(a, b) ==
    IF a = <<>> \/ b = <<>> THEN a = <<>> /\ b # <<>>
    ELSE IF Head(a) # Head(b) THEN Head(a) < Head(b)
    ELSE LexLess(Tail(a), Tail(b))

\* The integer a field of decimal digits denotes.
RECURSIVE int(_)
int(ds) ==
    IF ds = <<>> THEN 0
    ELSE 10 * int(SubSeq(ds, 1, Len(ds) - 1)) + ds[Len(ds)]

\* lo <= ts < hi
InWindow(ts, lo, hi) == ~LexLess(ts, lo) /\ LexLess(ts, hi)

\* floor(NUM_BATCH2_MATCHES * DUPLICATE_PERCENTAGE)
FloorDuplicates ==
    (NUM_BATCH2_MATCHES * DUPLICATE_PERCENTAGE[1]) \div DUPLICATE_PERCENTAGE[2]

\* The first 1000 data rows of the matches file, in the order written.
MatchesPrefix ==
    SubSeq(DataRows(MATCHES), 1,
           IF Len(DataRows(MATCHES)) < 1000 THEN Len(DataRows(MATCHES)) ELSE 1000)

Batch2Started == fs[BATCH2].mode # "absent"

\* C1: every created_at of the players file and every played_at of the matches
\* file is >= 2023-01-01 00:00:00 and < 2024-01-01 00:00:00, and every freshly
\* sampled row of the batch2 file (its first num_new data rows) has a played_at
\* >= 2023-06-01 00:00:00 and < 2024-01-01 00:00:00.
C1_TimestampsInWindow ==
    /\ \A k \in DOMAIN DataRows(PLAYERS) :
          InWindow(DataRows(PLAYERS)[k][3], Jan2023, Jan2024)
    /\ \A k \in DOMAIN DataRows(MATCHES) :
          InWindow(DataRows(MATCHES)[k][3], Jan2023, Jan2024)
    /\ \A k \in DOMAIN DataRows(BATCH2) :
          k <= num_new => InWindow(DataRows(BATCH2)[k][3], Jun2023, Jan2024)

C4_PlayerIdRange ==
    \A n \in {MATCHES, BATCH2} :
        \A k \in DOMAIN DataRows(n) :
            /\ int(DataRows(n)[k][1]) \in 11..(10 + NUM_PLAYERS)
            /\ DataRows(n)[k][1] = str(int(DataRows(n)[k][1]))

C4_Witness ==
    /\ pc = "batch2_dup"
    /\ i >= 1
    /\ num_new >= 1
    /\ NUM_PLAYERS >= 2

\* C5: every score written to the matches file and to the batch2 file, fresh
\* and copied rows alike, is the text of an integer in [100, 5000].
C5_ScoreRange ==
    \A n \in {MATCHES, BATCH2} :
        \A k \in DOMAIN DataRows(n) :
            /\ int(DataRows(n)[k][2]) \in 100..5000
            /\ DataRows(n)[k][2] = str(int(DataRows(n)[k][2]))

C5_Witness ==
    /\ fs[BATCH2].mode = "closed"
    /\ pc # "failed"
    /\ num_new >= 1
    /\ num_duplicates >= 1
    /\ \E k \in DOMAIN DataRows(MATCHES) : int(DataRows(MATCHES)[k][2]) = 5000
    /\ \E k \in DOMAIN DataRows(BATCH2) : int(DataRows(BATCH2)[k][2]) = 100

\* C6: the usernames of the players file are pairwise distinct, whatever
\* adjective and noun each row drew.
C6_UsernamesDistinct ==
    \A j, k \in DOMAIN DataRows(PLAYERS) :
        j # k => DataRows(PLAYERS)[j][1] # DataRows(PLAYERS)[k][1]

\* Two rows whose random draws were the same (same adjective, noun and date).
C6_Witness ==
    /\ Len(DataRows(PLAYERS)) >= 2
    /\ DataRows(PLAYERS)[1][3] = DataRows(PLAYERS)[2][3]

\* C7: the files are produced in the order players, matches, batch2 with at
\* most one file open for writing at a time; the matches file is read back only
\* when it is closed and holds all NUM_MATCHES rows; a file is written only
\* during its own generator, so batch2 generation never writes the players or
\* matches file.
C7_State ==
    /\ Cardinality({n \in FileNames : fs[n].mode = "w"}) <= 1
    /\ fs[MATCHES].mode # "absent" =>
          /\ fs[PLAYERS].mode = "closed"
          /\ Len(fs[PLAYERS].disk) = 1 + NUM_PLAYERS
    /\ fs[BATCH2].mode # "absent" =>
          /\ fs[MATCHES].mode = "closed"
          /\ Len(fs[MATCHES].disk) = 1 + NUM_MATCHES
    /\ pc = "batch2_read" =>
          /\ fs[MATCHES].mode = "closed"
          /\ fs[MATCHES].buf = <<>>
          /\ Len(fs[MATCHES].disk) = 1 + NUM_MATCHES
    /\ pc \in {"batch2_read_close", "batch2_open", "batch2_new", "batch2_dup",
               "main_end", "done"} =>
          existing_matches = DictReader(Written(MATCHES))

C7_Step ==
    /\ Written(PLAYERS)' # Written(PLAYERS) =>
          pc \in {"players_open", "players_loop"}
    /\ Written(MATCHES)' # Written(MATCHES) =>
          pc \in {"matches_open", "matches_loop"}
    /\ Written(BATCH2)' # Written(BATCH2) =>
          pc \in {"batch2_open", "batch2_new", "batch2_dup"}

C7_Sequential == [](C7_State) /\ [][C7_Step]_vars

C7_Witness ==
    /\ pc = "batch2_dup"
    /\ i >= 1
    /\ NUM_PLAYERS >= 1
    /\ NUM_MATCHES >= 1
    /\ fs[BATCH2].mode = "w"

\* C8: in the batch2 file, num_duplicates = floor(NUM_BATCH2_MATCHES *
\* DUPLICATE_PERCENTAGE) and num_new = NUM_BATCH2_MATCHES - num_duplicates; the
\* first num_new data rows are written by the fresh loop and the copies come
\* after them (no copy is written while a fresh row is still to come), and every
\* data row after position num_new equals one of the cached first 1000 matches
\* rows in all three fields.
C8_Layout ==
    Batch2Started =>
        /\ num_duplicates = FloorDuplicates
        /\ num_new = NUM_BATCH2_MATCHES - num_duplicates
        /\ pc = "batch2_new" =>
              /\ Len(DataRows(BATCH2)) = i
              /\ i <= num_new
        /\ pc = "batch2_dup" =>
              /\ Len(DataRows(BATCH2)) = num_new + i
              /\ i <= num_duplicates
        /\ \A k \in DOMAIN DataRows(BATCH2) :
              k > num_new =>
                  /\ DataRows(BATCH2)[k] \in Range(MatchesPrefix)
                  /\ \E m \in Range(existing_matches) :
                        DataRows(BATCH2)[k] =
                            <<m["player_id"], m["score"], m["played_at"]>>

C8_Witness ==
    /\ pc = "main_end"
    /\ num_new >= 1
    /\ num_duplicates >= 1
    /\ Len(DataRows(BATCH2)) = num_new + num_duplicates

\* For each loop index, the names adjective_noun_index over the two vocabularies.
UsernamesByIndex ==
    [x \in 0..MaxPlayers |->
        {a \o "_" \o n \o "_" \o ToString(x) :
            a \in Range(adjectives), n \in Range(nouns)}]

\* C9: in every data row of the players file the email is the username of the
\* same row followed by "@gamers.example.com", and the username is
\* adjective_noun_index with the adjective and the noun from the two
\* 10-element vocabularies and the index the loop index of the row.
C9_EmailFromUsername ==
    /\ Len(adjectives) = 10
    /\ Len(nouns) = 10
    /\ \A k \in DOMAIN DataRows(PLAYERS) :
          /\ DataRows(PLAYERS)[k][2] =
                DataRows(PLAYERS)[k][1] \o "@gamers.example.com"
          /\ DataRows(PLAYERS)[k][1] \in UsernamesByIndex[k - 1]

C9_Witness ==
    /\ fs[PLAYERS].mode = "closed"
    /\ Len(DataRows(PLAYERS)) >= 2
    /\ DataRows(PLAYERS)[1][1] # "swift_dragon_0"

\* The read-back of the matches file has happened.
AfterReadBack ==
    \/ pc \in {"batch2_read_close", "batch2_open", "batch2_new", "batch2_dup",
               "main_end", "done"}
    \/ pc = "failed" /\ Batch2Started

\* The matches file holds between 1 and 999 data rows when it is read back:
\* the duplicate pool is all of those rows and batch2 generation does not fail.
C10_PoolIsWholeFile ==
    (AfterReadBack /\ Len(DataRows(MATCHES)) \in 1..999) =>
        /\ existing_matches = DictReader(Written(MATCHES))
        /\ Len(existing_matches) = Len(DataRows(MATCHES))
        /\ pc # "failed"
        /\ pc = "batch2_dup" => ~ENABLED Batch2DupRaise

\* With no matches row and a duplicate to write, the duplicate loop can only
\* raise, and it does so at its first pick.
C10_RaisesAtFirstPick ==
    (pc = "batch2_dup" /\ NUM_MATCHES = 0 /\ FloorDuplicates >= 1) =>
        /\ i = 0
        /\ ENABLED Batch2DupRaise
        /\ ~ENABLED Batch2DupRow
        /\ ~ENABLED Batch2Close

\* C10 as stated: with NUM_MATCHES = 0 and num_duplicates >= 1 the run never
\* reaches the success message, and when it has failed the batch2 file holds
\* its header and all num_new fresh rows (the error is raised at the first
\* duplicate pick), fewer than NUM_BATCH2_MATCHES data rows; with 1 to 999
\* matches rows the pool is the whole file and generation does not fail.
C10_Original ==
    /\ (NUM_MATCHES = 0 /\ FloorDuplicates >= 1) =>
          /\ pc \notin {"main_end", "done"}
          /\ pc = "failed" =>
                /\ fs[BATCH2].mode = "closed"
                /\ fs[BATCH2].disk[1] = MatchesHeader
                /\ Len(DataRows(BATCH2)) = NUM_BATCH2_MATCHES - FloorDuplicates
                /\ Len(DataRows(BATCH2)) < NUM_BATCH2_MATCHES
    /\ C10_RaisesAtFirstPick
    /\ C10_PoolIsWholeFile

\* C10, amended: with NUM_MATCHES = 0 and num_duplicates >= 1 the run ends in an
\* error and never reaches the success message, leaving the batch2 file closed
\* with its header and fewer than NUM_BATCH2_MATCHES data rows: all num_new
\* fresh rows when NUM_PLAYERS >= 1 or num_new = 0 (the error is the first
\* duplicate pick), and no data row when NUM_PLAYERS = 0 and num_new >= 1 (the
\* error is the first fresh row's player_id draw).  With 1 to 999 matches rows
\* the pool is the whole file and no step of batch2 generation raises.
C10_Amended ==
    /\ (NUM_MATCHES = 0 /\ FloorDuplicates >= 1) =>
          /\ pc \notin {"main_end", "done"}
          /\ pc = "failed" =>
                /\ fs[BATCH2].mode = "closed"
                /\ fs[BATCH2].disk[1] = MatchesHeader
                /\ Len(DataRows(BATCH2)) < NUM_BATCH2_MATCHES
                /\ (NUM_PLAYERS >= 1 \/ NUM_BATCH2_MATCHES - FloorDuplicates = 0) =>
                      Len(DataRows(BATCH2)) = NUM_BATCH2_MATCHES - FloorDuplicates
                /\ (NUM_PLAYERS = 0 /\ NUM_BATCH2_MATCHES - FloorDuplicates >= 1) =>
                      Len(DataRows(BATCH2)) = 0
    /\ C10_RaisesAtFirstPick
    /\ C10_PoolIsWholeFile

C10_Witness ==
    /\ pc = "failed"
    /\ NUM_MATCHES = 0
    /\ NUM_PLAYERS >= 1
    /\ num_new >= 1
    /\ num_duplicates >= 1
    /\ Len(DataRows(BATCH2)) = num_new

====
